---- MODULE Spec2Model ----
(***************************************************************************)
(* Model of src/app.py: the Streamlit script that validates an ASIN,       *)
(* scrapes the product-reviews page with a headless Chrome session         *)
(* (scrape_reviews), labels every review with analyze_sentiment and        *)
(* exports the table.                                                      *)
(*                                                                         *)
(* Strings are sequences of tokens: a token is one whitespace character    *)
(* (" " or "\n") or a chunk of non-whitespace characters.  Python lists    *)
(* are sequences, Python dicts are functions from their keys.              *)
(***************************************************************************)
EXTENDS Integers, Sequences, FiniteSets, TLC

(* ---------------------------------------------------------------- bounds *)

\* Longest tail appended to an identifier prefix when enumerating inputs.
MaxTail == 2
\* Most div elements on a loaded page.
MaxElems == 2
\* Longest raw text of a field in the per-fragment extraction inputs.
MaxText == 2
\* Most runs of the script in a row (SpecCompare).
MaxRuns == 2

(* ------------------------------------------------------ program constants *)

\* {10} in the pattern ^[A-Z0-9]{10}$
AsinLen == 10

(* --------------------------------------------------------------- strings *)

Whitespace == {" ", "\n"}

SeqsUpTo(S, n) == UNION {[1..k -> S] : k \in 0..n}

RECURSIVE LStrip(_)
LStrip(s) == IF s # << >> /\ Head(s) \in Whitespace THEN LStrip(Tail(s)) ELSE s

RECURSIVE RStrip(_)
RStrip(s) ==
    IF s # << >> /\ s[Len(s)] \in Whitespace
    THEN RStrip(SubSeq(s, 1, Len(s) - 1))
    ELSE s

\* str.strip()
Strip(s) == RStrip(LStrip(s))

\* re.sub(r'\s+', ' ', s): every maximal run of whitespace becomes one " "
RECURSIVE CollapseWs(_)
CollapseWs(s) ==
    IF s = << >> THEN << >>
    ELSE IF Head(s) \in Whitespace
         THEN <<" ">> \o CollapseWs(LStrip(s))
         ELSE <<Head(s)>> \o CollapseWs(Tail(s))

\* clean_text(text)
clean_text(text) == CollapseWs(Strip(text))

\* the leading run of non-whitespace tokens of s
RECURSIVE TakeWord(_)
TakeWord(s) ==
    IF s = << >> \/ Head(s) \in Whitespace THEN << >>
    ELSE <<Head(s)>> \o TakeWord(Tail(s))

\* text.split() has no element: [0] raises IndexError
SplitIsEmpty(text) == LStrip(text) = << >>

\* text.split()[0]
SplitFirst(text) == TakeWord(LStrip(text))

(* ------------------------------------------------------------ validation *)

UpperChars == {"A", "Z"}
DigitChars == {"0", "9"}
AsinClass == UpperChars \cup DigitChars

\* re.match(r'^[A-Z0-9]{10}$', asin): Python's $ matches at the end of the
\* string and also just before a newline that ends the string.
MatchAsinPattern(s) ==
    /\ Len(s) \in {AsinLen, AsinLen + 1}
    /\ \A i \in 1..AsinLen : s[i] \in AsinClass
    /\ Len(s) = AsinLen + 1 => s[AsinLen + 1] = "\n"

\* a prefix of n valid characters, upper-case letters and digits alternating
AsinPrefix(n) == [i \in 1..n |-> IF i % 2 = 1 THEN "A" ELSE "0"]

TailChars == {"a", "-", "\n"}

\* what the user can have in the text input when the button is pressed
AsinInputs ==
    {AsinPrefix(n) \o t : n \in 0..(AsinLen + 1), t \in SeqsUpTo(TailChars, MaxTail)}

(* ------------------------------------------------------------- messages *)

\* one st.write / st.error / st.warning / st.success / widget call
Msg(level, id, text, num) == [level |-> level, id |-> id, text |-> text, num |-> num]

NoText == << >>

(* ------------------------------------------------------------ environment *)

\* stdout of `google-chrome --version`
ChromeStdouts == { << >>, <<"\n">>, <<"Google", " ", "Chrome", " ", "120", "\n">> }

\* driver.title
Titles == { << >>, <<"Reviews">> }

\* class attribute of a div
ClassSets == { {}, {"review"}, {"a-section", "review"} }

\* a div of the loaded document: data-hook="review" or not, and its classes
Divs == [hook : BOOLEAN, classes : ClassSets]

\* a loaded document: CAPTCHA form present or not, title, divs in document order
Pages == [captcha : BOOLEAN, title : Titles, divs : SeqsUpTo(Divs, MaxElems)]

NoPage == [captcha |-> FALSE, title |-> << >>, divs |-> << >>]

\* CSS selectors of the script, as predicates on a div
SelPrimary(d) == d.hook
SelASectionReview(d) == {"a-section", "review"} \subseteq d.classes
SelReview(d) == "review" \in d.classes
\* 'div[data-hook="review"], div.a-section.review' (line 80)
SelWait(d) == SelPrimary(d) \/ SelASectionReview(d)
\* 'div.a-section.review, div.review' (line 98): a selector list matches the
\* divs that match any of its selectors
SelFallback(d) == SelASectionReview(d) \/ SelReview(d)

\* a div matches the selector named sel
MatchesSel(sel, d) ==
    CASE sel = "primary" -> SelPrimary(d)
      [] sel = "a-section-review" -> SelASectionReview(d)
      [] sel = "review" -> SelReview(d)
      [] sel = "fallback" -> SelFallback(d)

\* find_elements: indices (document order) of the divs of p, from the k-th on,
\* that match the selector named sel
RECURSIVE Matching(_, _, _)
Matching(p, sel, k) ==
    IF k > Len(p.divs) THEN << >>
    ELSE (IF MatchesSel(sel, p.divs[k]) THEN <<k>> ELSE << >>) \o Matching(p, sel, k + 1)

\* driver.find_elements(By.CSS_SELECTOR, 'div[data-hook="review"]')
FindPrimaryElements(p) == Matching(p, "primary", 1)
\* mutant: the fallback selectors tried one after the other, the first that
\* matches any div wins
FindFallbackFirstMatch(p) ==
    IF Matching(p, "a-section-review", 1) # << >>
    THEN Matching(p, "a-section-review", 1)
    ELSE Matching(p, "review", 1)

\* driver.find_elements(By.CSS_SELECTOR, 'div.a-section.review, div.review')
FindFallbackElements(p) == Matching(p, "fallback", 1)

(* ----------------------------------------------------- field extraction *)

\* element.find_element(...) raised: no such element, or any other failure
NoSuchElement == [found |-> FALSE, exc |-> "NoSuchElementException", text |-> << >>]
StaleElement == [found |-> FALSE, exc |-> "StaleElementReferenceException", text |-> << >>]
Found(t) == [found |-> TRUE, exc |-> "", text |-> t]

TextChars == {"a", " "}

\* lines 102-106
ExtractUsername(l) == IF l.found THEN clean_text(l.text) ELSE <<"Anonymous">>
\* lines 108-112
ExtractComment(l) == IF l.found THEN clean_text(l.text) ELSE << >>
\* lines 114-118: split()[0] on a text without a word raises, caught too
ExtractRating(l) ==
    IF l.found /\ ~SplitIsEmpty(l.text) THEN clean_text(SplitFirst(l.text)) ELSE <<"N/A">>
\* lines 120-124
ExtractDate(l) == IF l.found THEN clean_text(l.text) ELSE <<"N/A">>

\* mutant: one try block around the four lookups, any failure defaults them all
ReviewDictOneTry(f, a) ==
    IF f.author.found /\ f.body.found /\ f.rating.found /\ ~SplitIsEmpty(f.rating.text)
       /\ f.date.found
    THEN [Username |-> clean_text(f.author.text),
          Comment  |-> clean_text(f.body.text),
          Rating   |-> clean_text(SplitFirst(f.rating.text)),
          Date     |-> clean_text(f.date.text),
          ASIN     |-> a]
    ELSE [Username |-> <<"Anonymous">>, Comment |-> << >>, Rating |-> <<"N/A">>,
          Date |-> <<"N/A">>, ASIN |-> a]

\* the dict of lines 127-133
ReviewDict(f, a) ==
    [Username |-> ExtractUsername(f.author),
     Comment  |-> ExtractComment(f.body),
     Rating   |-> ExtractRating(f.rating),
     Date     |-> ExtractDate(f.date),
     ASIN     |-> a]

\* mutant: the gate tests that the body was found, not its cleaned text
ProcessFragmentRawGate(rs, f, a) ==
    IF f.body.found THEN Append(rs, ReviewDict(f, a)) ELSE rs

\* one pass of the loop body, lines 101-133: the list after this fragment
ProcessFragment(rs, f, a) ==
    IF ExtractComment(f.body) # << >> THEN Append(rs, ReviewDict(f, a)) ELSE rs

\* the field lookups of one fragment
FragmentLookups(A, B, R, D) == [author : A, body : B, rating : R, date : D]

\* lookups of a whole run: a fragment without body, one with a blank body, one
\* with a body and no author
RunLookups ==
    { [author |-> Found(<<"a">>), body |-> NoSuchElement,
       rating |-> Found(<<"4.5", " ", "out">>), date |-> Found(<<"May">>)],
      [author |-> Found(<<"a">>), body |-> Found(<<" ">>),
       rating |-> Found(<<"4.5", " ", "out">>), date |-> Found(<<"May">>)],
      [author |-> NoSuchElement, body |-> Found(<<" ", "a">>),
       rating |-> Found(<<"4.5", " ", "out">>), date |-> Found(<<"May">>)] }

\* lookups of the extraction of a page: body rich, author present or absent
PageLookups ==
    FragmentLookups({NoSuchElement, Found(<<"a">>)},
                    {NoSuchElement, Found(<<" ">>), Found(<<" ", "a">>), Found(<<"b">>)},
                    {Found(<<"4.5", " ", "out">>)},
                    {Found(<<"May">>)})

AllResults == {NoSuchElement, StaleElement} \cup {Found(t) : t \in SeqsUpTo(TextChars, MaxText)}

\* lookups of the extraction of one fragment: every result for every field
FieldLookups == FragmentLookups(AllResults, AllResults, AllResults, AllResults)

(* ------------------------------------------------------ analyze_sentiment *)

\* an optional value: << >> when the key is absent, <<v>> when it is there
None == << >>
Some(v) == <<v>>

\* dict.get(key, default)
Get(opt, default) == IF opt = None THEN default ELSE opt[1]

\* JSON of a generateContent reply
Part(textOpt, isString) == [text |-> textOpt, isString |-> isString]
Content(partsOpt) == [parts |-> partsOpt]
Candidate(contentOpt) == [content |-> contentOpt]
Result(isObject, candidatesOpt) == [isObject |-> isObject, candidates |-> candidatesOpt]

\* what st.secrets and requests.post give for one call
Response(hasKey, transportOk, status, isJson, result) ==
    [hasKey |-> hasKey, transportOk |-> transportOk, status |-> status,
     isJson |-> isJson, result |-> result]

TextReply(t) ==
    Response(TRUE, TRUE, 200, TRUE,
             Result(TRUE, Some(<<Candidate(Some(Content(Some(<<Part(Some(t), TRUE)>>))))>>)))

EmptyResult == Result(TRUE, None)

\* the texts the service is asked for
Labels == { <<"Positive">>, <<"Negative">>, <<"Neutral">> }

\* texts a successful reply can carry
ReplyTexts ==
    { <<"Positive">>, <<" ", "Neutral", "\n">>, <<"Mixed">>,
      <<"positive">> }

Responses ==
    {TextReply(t) : t \in ReplyTexts}
    \cup { Response(FALSE, TRUE, 200, TRUE, EmptyResult),      \* no GEMINI_API_KEY
           Response(TRUE, FALSE, 200, TRUE, EmptyResult),      \* requests.post raises
           Response(TRUE, TRUE, 429, TRUE, EmptyResult),       \* raise_for_status raises
           Response(TRUE, TRUE, 500, TRUE, EmptyResult),
           Response(TRUE, TRUE, 200, FALSE, EmptyResult),      \* response.json() raises
           Response(TRUE, TRUE, 200, TRUE, Result(FALSE, None)),   \* JSON, not an object
           Response(TRUE, TRUE, 200, TRUE, EmptyResult),           \* {}
           Response(TRUE, TRUE, 200, TRUE, Result(TRUE, Some(<< >>))),   \* candidates: []
           Response(TRUE, TRUE, 200, TRUE, Result(TRUE, Some(<<Candidate(None)>>))),
           Response(TRUE, TRUE, 200, TRUE,
                    Result(TRUE, Some(<<Candidate(Some(Content(None)))>>))),
           Response(TRUE, TRUE, 200, TRUE,
                    Result(TRUE, Some(<<Candidate(Some(Content(Some(<< >>))))>>))),
           Response(TRUE, TRUE, 200, TRUE,
                    Result(TRUE, Some(<<Candidate(Some(Content(Some(<<Part(None, TRUE)>>))))>>))),
           Response(TRUE, TRUE, 200, TRUE,
                    Result(TRUE,
                           Some(<<Candidate(Some(Content(Some(<<Part(Some(<< >>), FALSE)>>))))>>))) }

Returned(v) == [raised |-> FALSE, value |-> v]
Raised == [raised |-> TRUE, value |-> << >>]

\* line 163: the chain of .get(...) and [0] on the parsed reply
SentimentOfResult(result) ==
    IF ~result.isObject THEN Raised
    ELSE LET candidates == Get(result.candidates, <<Candidate(None)>>)
         IN IF candidates = << >> THEN Raised
            ELSE LET content == Get(candidates[1].content, Content(None))
                     parts == Get(content.parts, <<Part(None, TRUE)>>)
                 IN IF parts = << >> THEN Raised
                    ELSE IF parts[1].text = None THEN Returned(<<"Neutral">>)
                    ELSE IF ~parts[1].isString THEN Raised
                    ELSE Returned(Strip(parts[1].text[1]))

\* lines 150-164, the try block: the value returned, or an exception raised
TrySentiment(resp) ==
    IF ~resp.hasKey THEN Raised
    ELSE IF ~resp.transportOk THEN Raised
    ELSE IF resp.status >= 400 THEN Raised
    ELSE IF ~resp.isJson THEN Raised
    ELSE SentimentOfResult(resp.result)

\* mutant: no except block, the exception reaches the caller
HandleSentimentErrorReraise(t) == t

\* lines 165-167, the except block: what reaches the caller
HandleSentimentError(t) == IF t.raised THEN Returned(<<"Neutral">>) ELSE t

\* analyze_sentiment(comment), for the reply the call meets
analyze_sentiment(resp) == HandleSentimentError(TrySentiment(resp))

(* ------------------------------------------------------------------ state *)

VARIABLES
    pc,               \* where the script run is
    asin,             \* the text input
    msgs,             \* everything reported to the page so far, in order
    driver,           \* scrape_reviews' driver: "None", "open" or "quit"
    page,             \* the document the session has loaded
    queried,          \* the fragment selectors queried so far, in order
    review_elements,  \* indices into page.divs
    idx,              \* position of the for loop of line 101
    lookups,          \* the field lookups met by the fragments processed so far
    reviews,          \* scrape_reviews' local list
    ret,              \* the list scrape_reviews returned, labelled in place by main
    exit,             \* how scrape_reviews left: "", "no_chrome", "exception",
                      \* "captcha" or "normal"
    calls,            \* calls made: scrape_reviews, analyze_sentiment, network
    li,               \* position of the for loop of line 180
    lastFailed,       \* the latest analyze_sentiment call hit its except block
    exported,         \* the rows written by df.to_excel
    prev,             \* what the previous extraction returned and reported
    runs              \* extractions compared so far

vars == <<pc, asin, msgs, driver, page, queried, review_elements, idx, lookups,
          reviews, ret, exit, calls, li, lastFailed, exported, prev, runs>>

scrapeVars == <<page, queried, review_elements, idx, lookups, reviews>>
labelVars == <<li, lastFailed, exported>>
cmpVars == <<prev, runs>>

NoCalls == [scrape_reviews |-> 0, analyze_sentiment |-> 0, network |-> 0]
NoPrev == [seen |-> FALSE, outcome |-> "", ret |-> << >>, msgs |-> << >>]

Say(m) == msgs' = Append(msgs, m)
Say2(m, n) == msgs' = msgs \o <<m, n>>

\* the script has been loaded and the form is shown
Init ==
    /\ pc = "idle"
    /\ asin = << >>
    /\ msgs = << >>
    /\ driver = "None"
    /\ page = NoPage
    /\ queried = << >>
    /\ review_elements = << >>
    /\ idx = 1
    /\ lookups = << >>
    /\ reviews = << >>
    /\ ret = << >>
    /\ exit = ""
    /\ calls = NoCalls
    /\ li = 1
    /\ lastFailed = FALSE
    /\ exported = << >>
    /\ prev = NoPrev
    /\ runs = 1

(* ------------------------------------------------------------- main logic *)

\* lines 170-176: the button is pressed with a in the text input
Submit(a) ==
    /\ pc = "idle"
    /\ asin' = a
    /\ IF a = << >>
       THEN /\ pc' = "done"
            /\ UNCHANGED <<msgs, calls>>
       ELSE IF ~MatchAsinPattern(a)
       THEN /\ Say(Msg("error", "invalid_asin", NoText, 0))
            /\ pc' = "done"
            /\ UNCHANGED calls
       ELSE /\ pc' = "s_chrome"
            /\ calls' = [calls EXCEPT !.scrape_reviews = @ + 1]
            /\ UNCHANGED msgs
    /\ UNCHANGED <<driver, ret, exit, scrapeVars, labelVars, cmpVars>>

(* --------------------------------------------------------- scrape_reviews *)

\* mutant: no finally block, the session is left as it is
FinallyLeaks(d) == d

\* lines 144-146: finally: if driver: driver.quit()
Finally(d) == IF d = "open" THEN "quit" ELSE d

\* lines 141-146: an exception e raised inside the try block
Raise(e) ==
    /\ Say(Msg("error", "scraping", <<e>>, 0))
    /\ ret' = << >>
    /\ exit' = "exception"
    /\ driver' = Finally(driver)
    /\ pc' = "m_check"

\* lines 33-41 and 48-51
GetChromeVersion ==
    /\ pc = "s_chrome"
    /\ \/ /\ Say2(Msg("error", "chrome_check", <<"FileNotFoundError">>, 0),
                  Msg("error", "chrome_missing", NoText, 0))
          /\ ret' = << >>
          /\ exit' = "no_chrome"
          /\ driver' = Finally(driver)
          /\ pc' = "m_check"
       \/ \E out \in ChromeStdouts :
            LET version == Strip(out) IN
            IF version = << >>
            THEN /\ Say2(Msg("write", "chrome_version", version, 0),
                         Msg("error", "chrome_missing", NoText, 0))
                 /\ ret' = << >>
                 /\ exit' = "no_chrome"
                 /\ driver' = Finally(driver)
                 /\ pc' = "m_check"
            ELSE /\ Say(Msg("write", "chrome_version", version, 0))
                 /\ pc' = "s_init"
                 /\ UNCHANGED <<ret, exit, driver>>
    /\ UNCHANGED <<asin, calls, scrapeVars, labelVars, cmpVars>>

\* mutant: the session is started from a driver already on disk, so a failed
\* start is reported without any download attempt
InitDriverNoDownload ==
    /\ pc = "s_init"
    /\ \/ /\ Say(Msg("write", "init_driver", NoText, 0))
          /\ driver' = "open"
          /\ pc' = "s_version"
          /\ UNCHANGED <<ret, exit>>
       \/ /\ msgs' = msgs \o <<Msg("write", "init_driver", NoText, 0),
                               Msg("error", "scraping", <<"SessionNotCreatedException">>, 0)>>
          /\ ret' = << >>
          /\ exit' = "exception"
          /\ driver' = Finally(driver)
          /\ pc' = "m_check"
    /\ UNCHANGED <<asin, calls, scrapeVars, labelVars, cmpVars>>

\* lines 54-65: ChromeDriverManager().install() fetches the driver, then
\* webdriver.Chrome starts the session
InitDriver ==
    /\ pc = "s_init"
    /\ calls' = [calls EXCEPT !.network = @ + 1]
    /\ \/ /\ Say(Msg("write", "init_driver", NoText, 0))
          /\ driver' = "open"
          /\ pc' = "s_version"
          /\ UNCHANGED <<ret, exit>>
       \/ \E e \in {"ConnectionError", "SessionNotCreatedException"} :
            /\ msgs' = msgs \o <<Msg("write", "init_driver", NoText, 0),
                                 Msg("error", "scraping", <<e>>, 0)>>
            /\ ret' = << >>
            /\ exit' = "exception"
            /\ driver' = Finally(driver)
            /\ pc' = "m_check"
    /\ UNCHANGED <<asin, scrapeVars, labelVars, cmpVars>>

\* lines 68-69
DriverVersion ==
    /\ pc = "s_version"
    /\ \/ /\ Say(Msg("write", "driver_version", NoText, 0))
          /\ pc' = "s_get"
          /\ UNCHANGED <<ret, exit, driver>>
       \/ Raise("KeyError")
    /\ UNCHANGED <<asin, calls, scrapeVars, labelVars, cmpVars>>

\* lines 72-75
GetPage ==
    /\ pc = "s_get"
    /\ calls' = [calls EXCEPT !.network = @ + 1]
    /\ \/ \E p \in Pages :
            /\ page' = p
            /\ Say(Msg("write", "url", asin, 0))
            /\ pc' = "s_wait"
            /\ UNCHANGED <<ret, exit, driver>>
       \/ /\ msgs' = msgs \o <<Msg("write", "url", asin, 0),
                               Msg("error", "scraping", <<"WebDriverException">>, 0)>>
          /\ ret' = << >>
          /\ exit' = "exception"
          /\ driver' = Finally(driver)
          /\ pc' = "m_check"
          /\ UNCHANGED page
    /\ UNCHANGED <<asin, queried, review_elements, idx, lookups, reviews, labelVars, cmpVars>>

\* lines 78-83: the wait ends as soon as a div matches, or gives up
WaitForReviews ==
    /\ pc = "s_wait"
    /\ \/ /\ \E k \in 1..Len(page.divs) : SelWait(page.divs[k])
          /\ UNCHANGED msgs
       \/ Say(Msg("warning", "wait_timeout", NoText, 0))
    /\ pc' = "s_captcha"
    /\ UNCHANGED <<asin, driver, ret, exit, calls, scrapeVars, labelVars, cmpVars>>

\* mutant: the CAPTCHA error is reported but `return []` is missing
CheckCaptchaNoReturn ==
    /\ pc = "s_captcha"
    /\ \/ /\ IF page.captcha
             THEN Say(Msg("error", "captcha", NoText, 0))
             ELSE UNCHANGED msgs
          /\ pc' = "s_title"
          /\ UNCHANGED <<ret, exit, driver>>
       \/ Raise("WebDriverException")
    /\ UNCHANGED <<asin, calls, scrapeVars, labelVars, cmpVars>>

\* lines 86-88
CheckCaptcha ==
    /\ pc = "s_captcha"
    /\ \/ IF page.captcha
          THEN /\ Say(Msg("error", "captcha", NoText, 0))
               /\ ret' = << >>
               /\ exit' = "captcha"
               /\ driver' = Finally(driver)
               /\ pc' = "m_check"
          ELSE /\ pc' = "s_title"
               /\ UNCHANGED <<msgs, ret, exit, driver>>
       \/ Raise("WebDriverException")
    /\ UNCHANGED <<asin, calls, scrapeVars, labelVars, cmpVars>>

\* lines 91-92
PageTitle ==
    /\ pc = "s_title"
    /\ \/ /\ Say(Msg("write", "title",
                     IF page.title # << >> THEN page.title
                     ELSE <<"No", " ", "title", " ", "found">>, 0))
          /\ pc' = "s_find"
          /\ UNCHANGED <<ret, exit, driver>>
       \/ Raise("WebDriverException")
    /\ UNCHANGED <<asin, calls, scrapeVars, labelVars, cmpVars>>

\* lines 95-97
FindPrimary ==
    /\ pc = "s_find"
    /\ \/ /\ review_elements' = FindPrimaryElements(page)
          /\ queried' = Append(queried, "primary")
          /\ IF review_elements' = << >>
             THEN /\ Say(Msg("warning", "no_primary", NoText, 0))
                  /\ pc' = "s_fallback"
             ELSE /\ pc' = "s_loop"
                  /\ UNCHANGED msgs
          /\ UNCHANGED <<ret, exit, driver>>
       \/ /\ Raise("WebDriverException")
          /\ UNCHANGED <<review_elements, queried>>
    /\ UNCHANGED <<asin, calls, page, idx, lookups, reviews, labelVars, cmpVars>>

\* line 98
FindFallback ==
    /\ pc = "s_fallback"
    /\ \/ /\ review_elements' = FindFallbackElements(page)
          /\ queried' = Append(queried, "fallback")
          /\ pc' = "s_loop"
          /\ UNCHANGED <<msgs, ret, exit, driver>>
       \/ /\ Raise("WebDriverException")
          /\ UNCHANGED <<review_elements, queried>>
    /\ UNCHANGED <<asin, calls, page, idx, lookups, reviews, labelVars, cmpVars>>

\* lines 101-133, one fragment, its field lookups drawn from L
ProcessElementFrom(L) ==
    /\ pc = "s_loop"
    /\ idx <= Len(review_elements)
    /\ \E f \in L :
         /\ reviews' = ProcessFragment(reviews, f, asin)
         /\ lookups' = Append(lookups, f)
    /\ idx' = idx + 1
    /\ UNCHANGED <<pc, asin, msgs, driver, ret, exit, calls, page, queried,
                   review_elements, labelVars, cmpVars>>

ProcessElement == ProcessElementFrom(RunLookups)

\* lines 135-140, and the finally block
Report ==
    /\ pc = "s_loop"
    /\ idx > Len(review_elements)
    /\ IF reviews = << >>
       THEN Say(Msg("warning", "no_valid", NoText, 0))
       ELSE Say(Msg("success", "found", NoText, Len(reviews)))
    /\ ret' = reviews
    /\ exit' = "normal"
    /\ driver' = Finally(driver)
    /\ pc' = "m_check"
    /\ UNCHANGED <<asin, calls, scrapeVars, labelVars, cmpVars>>

(* ------------------------------------------------- main logic, continued *)

\* lines 178 and 203-204
CheckReviews ==
    /\ pc = "m_check"
    /\ IF ret # << >>
       THEN /\ pc' = "m_label"
            /\ UNCHANGED msgs
       ELSE /\ Say(Msg("warning", "no_reviews", NoText, 0))
            /\ pc' = "done"
    /\ UNCHANGED <<asin, driver, ret, exit, calls, scrapeVars, labelVars, cmpVars>>

\* review['Sentiment'] = s
WithSentiment(review, s) ==
    [k \in DOMAIN review \cup {"Sentiment"} |-> IF k = "Sentiment" THEN s ELSE review[k]]

\* lines 180-181, one review; an exception out of analyze_sentiment ends the run
LabelReview ==
    /\ pc = "m_label"
    /\ li <= Len(ret)
    /\ \E resp \in Responses :
         LET r == analyze_sentiment(resp) IN
         /\ calls' = [calls EXCEPT !.analyze_sentiment = @ + 1,
                                   !.network = IF resp.hasKey THEN @ + 1 ELSE @]
         /\ lastFailed' = TrySentiment(resp).raised
         /\ IF r.raised
            THEN /\ pc' = "crashed"
                 /\ UNCHANGED <<ret, li, msgs>>
            ELSE /\ ret' = [ret EXCEPT ![li] = WithSentiment(@, r.value)]
                 /\ li' = li + 1
                 /\ pc' = "m_label"
                 /\ IF TrySentiment(resp).raised
                    THEN Say(Msg("warning", "sentiment", NoText, 0))
                    ELSE UNCHANGED msgs
    /\ UNCHANGED <<asin, driver, exit, scrapeVars, exported, cmpVars>>

\* lines 184-202: table shown, written with to_excel, offered for download
Export ==
    /\ pc = "m_label"
    /\ li > Len(ret)
    /\ \/ /\ msgs' = msgs \o <<Msg("write", "subheader", asin, 0),
                               Msg("write", "dataframe", NoText, Len(ret)),
                               Msg("write", "download_button", asin, 0)>>
          /\ exported' = ret
          /\ pc' = "done"
       \/ /\ msgs' = msgs \o <<Msg("write", "subheader", asin, 0),
                               Msg("write", "dataframe", NoText, Len(ret))>>
          /\ pc' = "crashed"
          /\ UNCHANGED exported
    /\ UNCHANGED <<asin, driver, ret, exit, calls, scrapeVars, li, lastFailed, cmpVars>>

Next ==
    \/ \E a \in AsinInputs : Submit(a)
    \/ GetChromeVersion
    \/ InitDriver
    \/ DriverVersion
    \/ GetPage
    \/ WaitForReviews
    \/ CheckCaptcha
    \/ PageTitle
    \/ FindPrimary
    \/ FindFallback
    \/ ProcessElement
    \/ Report
    \/ CheckReviews
    \/ LabelReview
    \/ Export

Spec == Init /\ [][Next]_vars

(* ----------------------------------------------------------- properties *)

HasMsg(id) == \E k \in 1..Len(msgs) : msgs[k].id = id

\* scrape_reviews has been called and has returned
ScrapeReturned == exit # ""

\* exactly ten characters, each an upper-case letter or a digit
IsTenAlnum(s) == Len(s) = AsinLen /\ \A k \in 1..Len(s) : s[k] \in AsinClass

Submitted == pc # "idle"

\* C1: whenever the submitted identifier is not ten characters of [A-Z0-9]
\* (the empty string and strings with trailing characters included), the run
\* calls neither scrape_reviews nor analyze_sentiment, makes no network call,
\* and reports the validation error.
C1_InvalidIdentifierRejected ==
    (Submitted /\ ~IsTenAlnum(asin)) =>
        /\ calls = NoCalls
        /\ HasMsg("invalid_asin")

\* C2: once scrape_reviews has returned, on whatever path, no browser session
\* is open; a session that was created has been quit.  A session is open only
\* while scrape_reviews is running.
C2_SessionQuitOnEveryExit ==
    /\ ScrapeReturned => driver # "open"
    /\ driver = "open" => pc \in {"s_version", "s_get", "s_wait", "s_captcha",
                                  "s_title", "s_find", "s_fallback", "s_loop"}
    /\ (ScrapeReturned /\ (calls.network >= 2 \/ exit \in {"captcha", "normal"}))
          => driver = "quit"

\* a session was created, the page was loaded, a later step raised, and the
\* session is quit on return
C2_Witness ==
    /\ exit = "exception"
    /\ queried # << >>
    /\ driver = "quit"
    /\ pc = "m_check"

\* C3: once the CAPTCHA check of a loaded page that carries the CAPTCHA form
\* is over, scrape_reviews has returned an empty list, and no fragment
\* selector has been queried and no field extracted, whatever divs the page
\* has and however the wait ended.  The CAPTCHA error is reported exactly
\* when the check saw the form; the only other way out is the lookup of the
\* form itself raising, which is reported as a scraping error.
C3_CaptchaBlocksExtraction ==
    (page.captcha /\ pc \notin {"s_wait", "s_captcha"}) =>
        /\ exit \in {"captcha", "exception"}
        /\ ret = << >>
        /\ queried = << >>
        /\ lookups = << >>
        /\ reviews = << >>
        /\ exit = "captcha" <=> HasMsg("captcha")
        /\ exit = "exception" <=> HasMsg("scraping")

\* a CAPTCHA page that also has review fragments, the wait having succeeded
C3_Witness ==
    /\ page.captcha
    /\ \E k \in 1..Len(page.divs) : SelPrimary(page.divs[k])
    /\ ~HasMsg("wait_timeout")
    /\ exit = "captcha"
    /\ pc = "done"

\* indices of the processed fragments whose normalized body text is non-empty
ValidFragments ==
    {k \in 1..Len(lookups) : lookups[k].body.found /\ clean_text(lookups[k].body.text) # << >>}

\* the j-th valid fragment in document order
NthValid(j) == CHOOSE k \in ValidFragments : Cardinality({v \in ValidFragments : v <= k}) = j

\* C4: when scrape_reviews returns normally, every fragment of the tier in use
\* has been processed once, and the returned records are, in document order,
\* exactly the fragments whose normalized body text is non-empty: one record
\* per such fragment carrying that body, none for a fragment whose body is
\* absent or blank, never more records than fragments.
C4_RecordsAreValidFragments ==
    (exit = "normal") =>
        /\ Len(lookups) = Len(review_elements)
        /\ Len(ret) = Cardinality(ValidFragments)
        /\ Len(ret) <= Len(review_elements)
        /\ \A j \in 1..Len(ret) :
             /\ ret[j].Comment = clean_text(lookups[NthValid(j)].body.text)
             /\ ret[j].Comment # << >>
             /\ ret[j].Username =
                  (IF lookups[NthValid(j)].author.found THEN <<"a">> ELSE <<"Anonymous">>)

\* two fragments, the first with a blank body and other fields present, the
\* second with a body: one record, the second fragment's
C4_Witness ==
    /\ exit = "normal"
    /\ pc = "m_check"
    /\ Len(lookups) = 2
    /\ lookups[1].body = Found(<<" ">>)
    /\ lookups[1].author.found
    /\ lookups[2].body = Found(<<"b">>)
    /\ Len(ret) = 1

\* the divs a selector matches, as a set of indices
DivsWhere(sel) == {k \in 1..Len(page.divs) : MatchesSel(sel, page.divs[k])}

AsSet(q) == {q[k] : k \in 1..Len(q)}

DiscoveryDone == pc = "s_loop" \/ exit = "normal"

\* C5 as claimed: with no primary fragment, the fallback selectors are tried
\* in priority order (div.a-section.review, then div.review) and only the
\* fragments of the first selector that yields any are processed.
C5_FallbackFirstMatchOnly ==
    (DiscoveryDone /\ DivsWhere("primary") = {}) =>
        AsSet(review_elements) =
            (IF DivsWhere("a-section-review") # {} THEN DivsWhere("a-section-review")
             ELSE DivsWhere("review"))

\* C5 as amended: the primary fragments alone when there is one, the fallback
\* query never made; otherwise the one fallback query, whose fragments are
\* all the divs matching either fallback selector; in document order, and
\* never fragments of both tiers.
C5_OneTierFallbackIsUnion ==
    DiscoveryDone =>
        /\ \A k \in 1..(Len(review_elements) - 1) : review_elements[k] < review_elements[k + 1]
        /\ IF DivsWhere("primary") # {}
           THEN /\ AsSet(review_elements) = DivsWhere("primary")
                /\ queried = <<"primary">>
           ELSE /\ AsSet(review_elements) = DivsWhere("a-section-review") \cup DivsWhere("review")
                /\ queried = <<"primary", "fallback">>

\* no primary fragment, one div.a-section.review and one plain div.review:
\* both are processed
C5_Witness ==
    /\ DiscoveryDone
    /\ DivsWhere("primary") = {}
    /\ DivsWhere("a-section-review") # {}
    /\ DivsWhere("review") # DivsWhere("a-section-review")
    /\ Len(review_elements) = 2

Labelled(r) == "Sentiment" \in DOMAIN r

\* C7: once the table is shown, and in the exported rows, every record's
\* Sentiment is "Positive", "Negative" or "Neutral".
C7_SentimentInLabels ==
    /\ HasMsg("dataframe") => \A j \in 1..Len(ret) : ret[j].Sentiment \in Labels
    /\ \A j \in 1..Len(exported) : exported[j].Sentiment \in Labels

\* C8: a call of analyze_sentiment that fails internally gives "Neutral" to
\* the record it labelled and the loop goes on: the run is never aborted
\* before every record is labelled, every record before the loop position is
\* labelled, and a finished run has shown and exported all the records that
\* scrape_reviews returned, each labelled.
C8_LabelingNeverAborts ==
    /\ lastFailed => (li > 1 /\ ret[li - 1].Sentiment = <<"Neutral">>)
    /\ pc = "crashed" => (li > Len(ret) /\ HasMsg("dataframe"))
    /\ pc \in {"m_label", "crashed", "done"} =>
          \A j \in 1..Len(ret) : j < li <=> Labelled(ret[j])
    /\ calls.analyze_sentiment = li - 1
    /\ (pc = "done" /\ exit = "normal" /\ ret # << >>) =>
          /\ exported = ret
          /\ Len(exported) = Cardinality(ValidFragments)
          /\ \A j \in 1..Len(exported) : Labelled(exported[j])

\* two records, labelling of the first failed, the second was labelled
\* "Positive", and both were exported
C8_Witness ==
    /\ pc = "done"
    /\ Len(exported) = 2
    /\ HasMsg("sentiment")
    /\ ~lastFailed
    /\ exported[1].Sentiment = <<"Neutral">>
    /\ exported[2].Sentiment = <<"Positive">>

IsProblem(m) == m.level \in {"error", "warning"}

\* C9 as claimed: any error or warning other than the validation error is
\* reported only after a network attempt of the run.
C9_OnlyValidationBeforeNetwork ==
    \A k \in 1..Len(msgs) :
        (IsProblem(msgs[k]) /\ msgs[k].id # "invalid_asin") => calls.network > 0

\* C9 as amended: a failed driver start, a network failure, a CAPTCHA block
\* and an empty extraction are reported only after a network attempt (the
\* driver download of ChromeDriverManager().install(), then driver.get); a
\* run that reports a problem without any network attempt failed validation
\* or failed the local Chrome check of get_chrome_version.
C9_OnlyLocalChecksBeforeNetwork ==
    /\ exit = "exception" => calls.network >= 1
    /\ exit \in {"captcha", "normal"} => calls.network >= 2
    /\ (HasMsg("scraping") \/ HasMsg("captcha") \/ HasMsg("no_valid")
          \/ HasMsg("wait_timeout") \/ HasMsg("no_primary")) => calls.network >= 1
    /\ ((\E k \in 1..Len(msgs) : IsProblem(msgs[k])) /\ calls.network = 0) =>
          (HasMsg("invalid_asin") \/ exit = "no_chrome")
    /\ exit = "no_chrome" => (HasMsg("chrome_missing") /\ calls.network = 0)

\* the driver download failed: the error is reported after that attempt
C9_Witness ==
    /\ exit = "exception"
    /\ calls.network = 1
    /\ HasMsg("scraping")
    /\ pc = "done"

(* ------------------------------------------------ extraction on its own *)

\* what lines 37-92 report for a valid identifier a when every step succeeds:
\* waited is whether the wait of line 79 found a div
FetchMsgs(a, waited, title) ==
    <<Msg("write", "chrome_version", <<"Google", " ", "Chrome", " ", "120">>, 0),
      Msg("write", "init_driver", NoText, 0),
      Msg("write", "driver_version", NoText, 0),
      Msg("write", "url", a, 0)>>
    \o (IF waited THEN << >> ELSE <<Msg("warning", "wait_timeout", NoText, 0)>>)
    \o <<Msg("write", "title",
             IF title # << >> THEN title ELSE <<"No", " ", "title", " ", "found">>, 0)>>

\* lines 170-92 in one step, for a valid identifier and a fetch that succeeds:
\* Submit, GetChromeVersion, InitDriver, DriverVersion, GetPage,
\* WaitForReviews, CheckCaptcha and PageTitle, none of them failing
FetchPage(P) ==
    /\ pc = "idle"
    /\ asin' = AsinPrefix(AsinLen)
    /\ \E p \in P, waited \in BOOLEAN :
         /\ ~p.captcha
         /\ waited => \E k \in 1..Len(p.divs) : SelWait(p.divs[k])
         /\ page' = p
         /\ msgs' = FetchMsgs(asin', waited, p.title)
    /\ driver' = "open"
    /\ calls' = [scrape_reviews |-> 1, analyze_sentiment |-> 0, network |-> 2]
    /\ pc' = "s_find"
    /\ UNCHANGED <<ret, exit, queried, review_elements, idx, lookups, reviews,
                   labelVars, cmpVars>>

FetchAnyPage == FetchPage(Pages)

\* a page with one primary fragment
OneFragmentPages ==
    {p \in Pages : Len(p.divs) = 1 /\ p.divs[1].hook /\ p.divs[1].classes = {}}

FetchOneFragment == FetchPage(OneFragmentPages)

\* one fragment, its four lookups drawn from every result a lookup can have
ProcessFieldsElement == ProcessElementFrom(FieldLookups)

NextFragment == FetchOneFragment \/ FindPrimary \/ ProcessFieldsElement \/ Report

SpecFragment == Init /\ [][NextFragment]_vars

\* the fragments of a page, their body and author lookups varied
ProcessPageElement == ProcessElementFrom(PageLookups)

\* the extraction of a page fetched without failure
NextExtractor ==
    \/ FetchAnyPage
    \/ FindPrimary
    \/ FindFallback
    \/ ProcessPageElement
    \/ Report

SpecExtractor == Init /\ [][NextExtractor]_vars

\* the three outcomes of an extraction that ran to its end
Outcome ==
    IF exit # "normal" THEN "failed"
    ELSE IF ret # << >> THEN "records"
    ELSE IF review_elements = << >> THEN "zero_fragments"
    ELSE "none_valid"

\* the button is pressed again once scrape_reviews is over: Streamlit runs the
\* script from the top, on a cleared page
Rerun ==
    /\ pc \in {"done", "m_label"}
    /\ runs < MaxRuns
    /\ runs' = runs + 1
    /\ prev' = [seen |-> TRUE, outcome |-> Outcome, ret |-> ret, msgs |-> msgs]
    /\ pc' = "idle"
    /\ asin' = << >>
    /\ msgs' = << >>
    /\ driver' = "None"
    /\ page' = NoPage
    /\ queried' = << >>
    /\ review_elements' = << >>
    /\ idx' = 1
    /\ lookups' = << >>
    /\ reviews' = << >>
    /\ ret' = << >>
    /\ exit' = ""
    /\ calls' = NoCalls
    /\ UNCHANGED labelVars

\* successive runs, each on a page fetched without failure, up to the labelling
NextCompare ==
    \/ FetchAnyPage
    \/ FindPrimary
    \/ FindFallback
    \/ ProcessElement
    \/ Report
    \/ CheckReviews
    \/ Rerun

SpecCompare == Init /\ [][NextCompare]_vars

\* FetchPage leaves the script where the steps it stands for leave it: in the
\* step-by-step run, every state about to query the fragments has the
\* messages, the session and the calls that FetchPage sets.
FetchPageMatchesSteps ==
    pc = "s_find" =>
        /\ \E waited \in BOOLEAN : msgs = FetchMsgs(asin, waited, page.title)
        /\ driver = "open"
        /\ calls = [scrape_reviews |-> 1, analyze_sentiment |-> 0, network |-> 2]
        /\ ~page.captcha
        /\ queried = << >> /\ review_elements = << >> /\ idx = 1
        /\ lookups = << >> /\ reviews = << >> /\ ret = << >> /\ exit = ""

\* C6: two extractions that ran to their end with different outcomes among
\* records found, zero fragments discovered and fragments discovered but none
\* valid never return the same list and report the same messages.
C6_OutcomesDistinguishable ==
    (/\ prev.seen
     /\ pc \in {"done", "m_label"}
     /\ prev.outcome # "failed"
     /\ Outcome # "failed"
     /\ prev.ret = ret
     /\ prev.msgs = msgs) => prev.outcome = Outcome

\* what a run on a title-less page reports when the wait timed out, no primary
\* fragment was found and no record was produced
EmptyRunMsgs ==
    FetchMsgs(AsinPrefix(AsinLen), FALSE, << >>)
    \o <<Msg("warning", "no_primary", NoText, 0),
         Msg("warning", "no_valid", NoText, 0),
         Msg("warning", "no_reviews", NoText, 0)>>

\* the two runs that C6_OutcomesDistinguishable cannot tell apart; each is
\* reachable in the step-by-step Spec as well
C6_ZeroFragmentsRun ==
    pc = "done" /\ Outcome = "zero_fragments" /\ ret = << >> /\ msgs = EmptyRunMsgs
C6_NoneValidRun ==
    pc = "done" /\ Outcome = "none_valid" /\ ret = << >> /\ msgs = EmptyRunMsgs

IsBlank(t) == \A k \in 1..Len(t) : t[k] \in Whitespace

\* w is the first word of t: t is blanks, then w, then nothing or a blank
IsFirstWordOf(w, t) ==
    /\ w # << >>
    /\ \A k \in 1..Len(w) : w[k] \notin Whitespace
    /\ \E n \in 0..Len(t) :
         /\ IsBlank(SubSeq(t, 1, n))
         /\ n + Len(w) <= Len(t)
         /\ SubSeq(t, n + 1, n + Len(w)) = w
         /\ (n + Len(w) < Len(t) => t[n + Len(w) + 1] \in Whitespace)

\* C10: for a processed fragment, the record is emitted exactly when its body
\* lookup gave a text that is not blank, and each of author, rating and date
\* depends on its own lookup alone: "Anonymous", "N/A", "N/A" when that
\* lookup failed (for the rating also when its text has no word), the
\* text extracted from that lookup otherwise, whatever the other lookups gave.
C10_FieldsIndependent ==
    (pc = "s_loop" /\ Len(lookups) = 1) =>
        LET f == lookups[1] IN
        /\ reviews # << >> <=> (f.body.found /\ ~IsBlank(f.body.text))
        /\ Len(reviews) <= 1
        /\ reviews # << >> =>
             LET r == reviews[1] IN
             /\ r.Comment = clean_text(f.body.text)
             /\ r.Username = (IF f.author.found THEN clean_text(f.author.text)
                              ELSE <<"Anonymous">>)
             /\ r.Date = (IF f.date.found THEN clean_text(f.date.text) ELSE <<"N/A">>)
             /\ IF f.rating.found /\ ~IsBlank(f.rating.text)
                THEN IsFirstWordOf(r.Rating, f.rating.text)
                ELSE r.Rating = <<"N/A">>
             /\ r.ASIN = asin

\* author missing, rating lookup failing, body and date present: the record
\* is emitted with "Anonymous", "N/A" and the date found
C10_Witness ==
    /\ pc = "s_loop"
    /\ Len(lookups) = 1
    /\ lookups[1].author = NoSuchElement
    /\ lookups[1].rating = StaleElement
    /\ lookups[1].body = Found(<<"a">>)
    /\ lookups[1].date = Found(<<"a", "a">>)
    /\ Len(reviews) = 1
    /\ reviews[1].Username = <<"Anonymous">>
    /\ reviews[1].Rating = <<"N/A">>
    /\ reviews[1].Date = <<"a", "a">>

====
